---- MODULE Spec2Model ----
(***************************************************************************)
(* LUIS result normalisation of botbuilder-python: LuisUtil (entity and    *)
(* composite-entity extraction, name normalisation) and RecognizerResult   *)
(* (top scoring intent); and WaterfallStepContext.next of                   *)
(* botbuilder-dialogs.                                                     *)
(*                                                                         *)
(* Python strings that the code takes apart (entity types, roles, keys)    *)
(* are sequences of one-character strings; strings that are only compared  *)
(* (entity text, intent names) are TLA+ strings.  A Python dict is a       *)
(* function from its keys; a value stored in a result list carries its     *)
(* Python type in the field py ("str" or "dict").                          *)
(***************************************************************************)
EXTENDS Integers, Sequences, FiniteSets, TLC

VARIABLES
    pc,                    \* position of the running call
    entities,              \* extract_entities_and_metadata: argument entities
    composite_entities,    \* extract_entities_and_metadata: argument composite_entities
    verbose,               \* extract_entities_and_metadata: argument verbose
    entities_and_metadata, \* extract_entities_and_metadata: the returned dict
    composite_entity_types,\* extract_entities_and_metadata: the parent type set
    remaining,             \* the working list after the composite passes
    passes,                \* history: one record per populate_composite_entity_model call
    trace,                 \* history: one record per entity value handed to add_property
    name_entity,           \* extract_normalized_entity_name: the entity normalised
    names,                 \* the names returned so far, oldest first
    result,                \* the RecognizerResult object
    call,                  \* the last call made on result and its outcome
    step,                  \* the WaterfallStepContext object
    callers,               \* the coroutines that call step.next, each with its position
    resumed                \* history: the calls of parent.resume_dialog, oldest first

vars == <<pc, entities, composite_entities, verbose, entities_and_metadata,
          composite_entity_types, remaining, passes, trace, name_entity, names,
          result, call, step, callers, resumed>>

luis_vars == <<entities, composite_entities, verbose, entities_and_metadata,
               composite_entity_types, remaining, passes, trace>>
name_vars == <<name_entity, names>>
result_vars == <<result, call>>
step_vars == <<step, callers, resumed>>

----------------------------------------------------------------------------
(* Bounds of the model *)
MaxEntities == 3
MaxComposites == 2
MaxChildren == 2
MaxFragments == 2
MaxIntents == 3
MaxScore == 2
MaxCallers == 3

----------------------------------------------------------------------------
(* Python str operations used by LuisUtil *)

startswith(s, prefix) ==
    /\ Len(s) >= Len(prefix)
    /\ SubSeq(s, 1, Len(prefix)) = prefix

\* s.replace(old, new) for one-character old and new
replace(s, old, new) == [i \in 1..Len(s) |-> IF s[i] = old THEN new ELSE s[i]]

\* s.split(sep)[-1]: what follows the last sep, or s when there is none
split_last(s, sep) ==
    LET at == {i \in 1..Len(s) : s[i] = sep}
    IN  IF at = {} THEN s
        ELSE SubSeq(s, (CHOOSE i \in at : \A j \in at : j <= i) + 1, Len(s))

\* s.isspace(): at least one character and all of them whitespace
isspace(s) == Len(s) > 0 /\ \A i \in 1..Len(s) : s[i] = " "

str_builtin == <<"b", "u", "i", "l", "t", "i", "n", ".">>
str_datetimeV2 == <<"d", "a", "t", "e", "t", "i", "m", "e", "V", "2", ".">>
str_currency == <<"c", "u", "r", "r", "e", "n", "c", "y">>
str_datetime == <<"d", "a", "t", "e", "t", "i", "m", "e">>
str_money == <<"m", "o", "n", "e", "y">>

_metadata_key == <<"$", "i", "n", "s", "t", "a", "n", "c", "e">>

----------------------------------------------------------------------------
(* LuisUtil.extract_normalized_entity_name.  entity.role is the "role"     *)
(* entry of additional_properties, the empty string when there is none.    *)

strip_builtin(type) == SubSeq(type, 9, Len(type))

normalized_type(type0) ==
    LET t1 == split_last(type0, ":")
        t2 == IF startswith(t1, str_builtin \o str_datetimeV2) THEN str_datetime ELSE t1
        t3 == IF startswith(t2, str_builtin \o str_currency) THEN str_money ELSE t2
    IN  IF startswith(t3, str_builtin) THEN strip_builtin(t3) ELSE t3

extract_normalized_entity_name(entity) ==
    LET type == normalized_type(entity.type)
        role == entity.role
        chosen == IF Len(role) > 0 /\ ~isspace(role) THEN role ELSE type
    IN  replace(replace(chosen, ".", "_"), " ", "_")

----------------------------------------------------------------------------
(* Python values and dicts *)

py_str(s) == [py |-> "str", v |-> s]
py_dict(d) == [py |-> "dict", v |-> d]

empty_dict == <<>>

\* entity in covered_set
contains(list, entity) == \E i \in 1..Len(list) : list[i] = entity

\* add_property that replaces the list of a key that exists
add_property_overwrite(obj, key, value) ==
    IF key \in DOMAIN obj
    THEN [obj EXCEPT ![key] = <<value>>]
    ELSE obj @@ (key :> <<value>>)

\* add_property that inserts at the head of the list of a key that exists
add_property_prepend(obj, key, value) ==
    IF key \in DOMAIN obj
    THEN [obj EXCEPT ![key] = <<value>> \o @]
    ELSE obj @@ (key :> <<value>>)

\* LuisUtil.add_property
add_property(obj, key, value) ==
    IF key \in DOMAIN obj
    THEN [obj EXCEPT ![key] = Append(@, value)]
    ELSE obj @@ (key :> <<value>>)

\* add_property(obj[_metadata_key], key, value)
add_metadata(obj, key, value) ==
    [obj EXCEPT ![_metadata_key] = add_property(@, key, value)]

\* LuisUtil.extract_entity_value, for an entity that carries no resolution
extract_entity_value(entity) == py_str(entity.entity)

\* LuisUtil.extract_entity_metadata, for an entity that carries no score and
\* no resolution
extract_entity_metadata(entity) ==
    [startIndex |-> entity.start_index,
     endIndex |-> entity.end_index + 1,
     text |-> entity.entity,
     type |-> entity.type]

\* composite_contains_entity that compares the start of the span alone
composite_contains_entity_start_only(composite_entity_metadata, entity) ==
    entity.start_index >= composite_entity_metadata.start_index

\* LuisUtil.composite_contains_entity
composite_contains_entity(composite_entity_metadata, entity) ==
    /\ entity.start_index >= composite_entity_metadata.start_index
    /\ entity.end_index <= composite_entity_metadata.end_index

----------------------------------------------------------------------------
(* LuisUtil.populate_composite_entity_model *)

\* find_composite_entity that compares the type alone
find_composite_entity_by_type(composite_entity, entities_) ==
    LET hits == {i \in 1..Len(entities_) :
                    entities_[i].type = composite_entity.parent_type}
    IN  IF hits = {} THEN 0 ELSE CHOOSE i \in hits : \A j \in hits : i <= j

\* the index in entities of the composite's own entity, 0 when there is none
find_composite_entity(composite_entity, entities_) ==
    LET hits == {i \in 1..Len(entities_) :
                    /\ entities_[i].type = composite_entity.parent_type
                    /\ entities_[i].entity = composite_entity.value}
    IN  IF hits = {} THEN 0 ELSE CHOOSE i \in hits : \A j \in hits : i <= j

\* the test that skips an entity which does not belong to the composite
not_belongs(child, composite_entity_metadata, entity) ==
    \/ child.type # entity.type
    \/ ~composite_contains_entity(composite_entity_metadata, entity)

\* cover_entity that adds no metadata in verbose mode
cover_entity_without_metadata(entity, verbose_, k, st) ==
    LET key == extract_normalized_entity_name(entity)
    IN  [covered_set |-> Append(st.covered_set, entity),
         children_entities |->
            add_property(st.children_entities, key, extract_entity_value(entity)),
         trace |-> Append(st.trace, [entity |-> entity, key |-> key, by |-> k])]

\* one entity of the inner loop; st = [covered_set, children_entities, trace]
cover_entity(entity, verbose_, k, st) ==
    LET key == extract_normalized_entity_name(entity)
        added == add_property(st.children_entities, key, extract_entity_value(entity))
    IN  [covered_set |-> Append(st.covered_set, entity),
         children_entities |->
            IF verbose_ THEN add_metadata(added, key, extract_entity_metadata(entity))
            ELSE added,
         trace |-> Append(st.trace, [entity |-> entity, key |-> key, by |-> k])]

RECURSIVE entity_loop(_, _, _, _, _, _, _)
entity_loop(child, entities_, composite_entity_metadata, verbose_, k, j, st) ==
    IF j > Len(entities_) THEN st
    ELSE LET entity == entities_[j]
             skip == \/ contains(st.covered_set, entity)
                     \/ not_belongs(child, composite_entity_metadata, entity)
         IN  entity_loop(child, entities_, composite_entity_metadata, verbose_, k, j + 1,
                         IF skip THEN st ELSE cover_entity(entity, verbose_, k, st))

RECURSIVE children_loop(_, _, _, _, _, _, _)
children_loop(children, entities_, composite_entity_metadata, verbose_, k, c, st) ==
    IF c > Len(children) THEN st
    ELSE children_loop(children, entities_, composite_entity_metadata, verbose_, k, c + 1,
                       entity_loop(children[c], entities_, composite_entity_metadata,
                                   verbose_, k, 1, st))

\* filter_covered that returns the list as it was given
filter_nothing(entities_, covered_set) == entities_

\* the list returned: the entities not covered by this composite
filter_covered(entities_, covered_set) ==
    SelectSeq(entities_, LAMBDA entity : ~contains(covered_set, entity))

\* what the call does once the loops are over: the composite is added under
\* the name of its own entity, and the covered entities leave the list
add_composite(entities_, out, verbose_, k, p, st) ==
    LET composite_entity_metadata == entities_[p]
        key == extract_normalized_entity_name(composite_entity_metadata)
        out1 == add_property(out, key, py_dict(st.children_entities))
    IN  [composite |-> k, before |-> entities_, parent |-> p,
         covered_set |-> st.covered_set,
         children_entities |-> st.children_entities,
         after |-> filter_covered(entities_, st.covered_set),
         out |-> IF verbose_
                 THEN add_metadata(out1, key,
                          extract_entity_metadata(composite_entity_metadata))
                 ELSE out1,
         trace |-> st.trace]

\* the call when its own entity is at position p of the list (0: not found)
populate_at(composite_entity, entities_, out, verbose_, k, trace_, p) ==
    LET children_entities ==
            IF verbose_ THEN (_metadata_key :> empty_dict) ELSE empty_dict
    IN  IF p = 0
        THEN [composite |-> k, before |-> entities_, parent |-> 0, covered_set |-> <<>>,
              children_entities |-> children_entities,
              after |-> entities_, out |-> out, trace |-> trace_]
        ELSE add_composite(entities_, out, verbose_, k, p,
                 children_loop(composite_entity.children, entities_, entities_[p],
                               verbose_, k, 1,
                               [covered_set |-> <<>>,
                                children_entities |-> children_entities,
                                trace |-> trace_]))

\* k is the position of composite_entity among the descriptors; the result
\* holds the returned list (after), the dict as the call leaves it (out) and
\* what the call did
populate_composite_entity_model(composite_entity, entities_, out, verbose_, k, trace_) ==
    populate_at(composite_entity, entities_, out, verbose_, k, trace_,
                find_composite_entity(composite_entity, entities_))

----------------------------------------------------------------------------
(* LuisUtil.extract_entities_and_metadata *)

parent_types(composites) == {composites[i].parent_type : i \in 1..Len(composites)}

\* the state of the loop over the descriptors after a call that returned r;
\* st = [current, out, passes, trace]
after_pass(st, r) ==
    [current |-> r.after, out |-> r.out,
     passes |-> Append(st.passes,
                       [composite |-> r.composite, before |-> r.before,
                        parent |-> r.parent, covered_set |-> r.covered_set,
                        children_entities |-> r.children_entities,
                        after |-> r.after, out |-> r.out]),
     trace |-> r.trace]

RECURSIVE composite_loop(_, _, _, _)
composite_loop(composites, verbose_, k, st) ==
    IF k > Len(composites) THEN st
    ELSE composite_loop(composites, verbose_, k + 1,
                        after_pass(st,
                            populate_composite_entity_model(composites[k], st.current,
                                                            st.out, verbose_, k, st.trace)))

\* is_composite_type that skips nothing
is_never_composite_type(entity, types) == FALSE

\* the test that skips an entity in the flat pass
is_composite_type(entity, types) == entity.type \in types

\* one entity of the flat pass; st = [out, trace]
emit_entity(entity, verbose_, st) ==
    LET key == extract_normalized_entity_name(entity)
        added == add_property(st.out, key, extract_entity_value(entity))
    IN  [out |-> IF verbose_
                 THEN add_metadata(added, key, extract_entity_metadata(entity))
                 ELSE added,
         trace |-> Append(st.trace, [entity |-> entity, key |-> key, by |-> 0])]

RECURSIVE flat_loop(_, _, _, _, _)
flat_loop(entities_, types, verbose_, j, st) ==
    IF j > Len(entities_) THEN st
    ELSE flat_loop(entities_, types, verbose_, j + 1,
                   IF is_composite_type(entities_[j], types) THEN st
                   ELSE emit_entity(entities_[j], verbose_, st))

\* the flat pass over the list the composite passes left; st is the state of
\* the loop over the descriptors at its end
flat_pass(types, verbose_, st) ==
    [composite_entity_types |-> types,
     remaining |-> st.current,
     passes |-> st.passes,
     flat |-> flat_loop(st.current, types, verbose_, 1,
                        [out |-> st.out, trace |-> st.trace])]

extract_entities_and_metadata(entities_, composites, verbose_) ==
    flat_pass(IF Len(composites) > 0 THEN parent_types(composites) ELSE {},
              verbose_,
              composite_loop(composites, verbose_, 1,
                             [current |-> entities_,
                              out |-> IF verbose_ THEN (_metadata_key :> empty_dict)
                                      ELSE empty_dict,
                              passes |-> <<>>, trace |-> <<>>]))

----------------------------------------------------------------------------
(* The inputs of extract_entities_and_metadata *)

type_parent == <<"T">>
type_child == <<"c">>
type_builtin_child == str_builtin \o <<"c">>

EntityTypes == {type_parent, type_child, type_builtin_child}
ParentTypes == {type_parent}
ChildTypes == {type_child, type_builtin_child}

\* the spans of one utterance that entities are detected at, with their text
Mentions ==
    {[start_index |-> 0, end_index |-> 2, entity |-> "x"],
     [start_index |-> 1, end_index |-> 3, entity |-> "y"],
     [start_index |-> 1, end_index |-> 2, entity |-> "z"]}

CompositeValues == {"x", "y"}

EntityPool ==
    {[type |-> t, entity |-> m.entity, start_index |-> m.start_index,
      end_index |-> m.end_index, role |-> <<>>] : t \in EntityTypes, m \in Mentions}

SeqsUpTo(S, n) == UNION {[1..m -> S] : m \in 0..n}

\* a response lists each detected entity once: the entities of a list differ
\* in type or span, so the == of EntityModel that "entity in covered_set" uses
\* tells them apart whether it compares identity or attributes
EntityLists ==
    {s \in SeqsUpTo(EntityPool, MaxEntities) :
        \A i, j \in 1..Len(s) : i # j => s[i] # s[j]}

CompositeEntityModels ==
    {[parent_type |-> t, value |-> v, children |-> c] :
        t \in ParentTypes, v \in CompositeValues,
        c \in SeqsUpTo({[type |-> ct] : ct \in ChildTypes}, MaxChildren)}

CompositeLists == SeqsUpTo(CompositeEntityModels, MaxComposites)

----------------------------------------------------------------------------
(* The call of extract_entities_and_metadata *)

IdleName == name_entity = [type |-> <<>>, role |-> <<>>] /\ names = <<>>
IdleResult == result = <<>> /\ call = [op |-> "none"]
IdleStep == step = <<>> /\ callers = <<>> /\ resumed = <<>>
IdleLuis ==
    /\ entities = <<>>
    /\ composite_entities = <<>>
    /\ verbose = FALSE
    /\ entities_and_metadata = empty_dict
    /\ composite_entity_types = {}
    /\ remaining = <<>>
    /\ passes = <<>>
    /\ trace = <<>>

Init ==
    /\ pc = "call"
    /\ entities \in EntityLists
    /\ composite_entities \in CompositeLists
    /\ verbose \in BOOLEAN
    /\ entities_and_metadata = empty_dict
    /\ composite_entity_types = {}
    /\ remaining = <<>>
    /\ passes = <<>>
    /\ trace = <<>>
    /\ IdleName
    /\ IdleResult
    /\ IdleStep

Extract ==
    /\ pc = "call"
    /\ \E r \in {extract_entities_and_metadata(entities, composite_entities, verbose)} :
           /\ entities_and_metadata' = r.flat.out
           /\ composite_entity_types' = r.composite_entity_types
           /\ remaining' = r.remaining
           /\ passes' = r.passes
           /\ trace' = r.flat.trace
    /\ pc' = "done"
    /\ UNCHANGED <<entities, composite_entities, verbose, name_vars, result_vars, step_vars>>

Next == Extract

Spec == Init /\ [][Next]_vars

----------------------------------------------------------------------------
(* Calls of extract_normalized_entity_name: on an entity, then on an       *)
(* entity without role whose type is the name the first call returned.     *)

Fragments ==
    {str_builtin, str_datetimeV2, str_currency, <<":">>, <<".">>, <<" ">>, <<"x">>}

RECURSIVE join(_)
join(parts) == IF parts = <<>> THEN <<>> ELSE Head(parts) \o join(Tail(parts))

Strings == {join(parts) : parts \in SeqsUpTo(Fragments, MaxFragments)}

InitName ==
    /\ pc = "name"
    /\ name_entity \in [type : Strings, role : Strings]
    /\ names = <<>>
    /\ IdleLuis
    /\ IdleResult
    /\ IdleStep

NormalizeEntity ==
    /\ pc = "name"
    /\ names = <<>>
    /\ names' = <<extract_normalized_entity_name(name_entity)>>
    /\ UNCHANGED <<pc, name_entity, luis_vars, result_vars, step_vars>>

NormalizeName ==
    /\ pc = "name"
    /\ Len(names) = 1
    /\ names' = Append(names,
                       extract_normalized_entity_name([type |-> names[1], role |-> <<>>]))
    /\ UNCHANGED <<pc, name_entity, luis_vars, result_vars, step_vars>>

NextName == NormalizeEntity \/ NormalizeName

SpecName == InitName /\ [][NextName]_vars

----------------------------------------------------------------------------
(* RecognizerResult.  A field holds None as <<>> and a value x as <<x>>;    *)
(* the intent mapping is the sequence of its items in the dict's iteration *)
(* order, its scores are score levels; the properties dict is the sequence *)
(* of its keys.                                                            *)

None == <<>>
Some(x) == <<x>>

IntentNames == {"a", "b", "c"}
Scores == 0..MaxScore

IntentMaps ==
    {m \in SeqsUpTo([name : IntentNames, score : Scores], MaxIntents) :
        \A i, j \in 1..Len(m) : i # j => m[i].name # m[j].name}

IntentValues == {None} \cup {Some(m) : m \in IntentMaps}
TextValues == {None, Some("hi")}
EntityValues == {None, Some(empty_dict)}
PropertyValues == {Some(<<>>), Some(<<"sentiment">>)}

\* RecognizerResult.__init__
new_result(text, altered_text, intents, entities_) ==
    [_text |-> text, _altered_text |-> altered_text, _intents |-> intents,
     _entities |-> entities_, _properties |-> Some(<<>>)]

\* scan_intents replacing the best on a score that is greater or equal
RECURSIVE scan_intents_last_wins(_, _, _)
scan_intents_last_wins(items, i, top_intent) ==
    IF i > Len(items) THEN top_intent
    ELSE scan_intents_last_wins(items, i + 1,
                                IF items[i].score >= top_intent.score
                                THEN [intent |-> items[i].name, score |-> items[i].score]
                                ELSE top_intent)

\* the loop of get_top_scoring_intent over intents.items()
RECURSIVE scan_intents(_, _, _)
scan_intents(items, i, top_intent) ==
    IF i > Len(items) THEN top_intent
    ELSE scan_intents(items, i + 1,
                      IF items[i].score > top_intent.score
                      THEN [intent |-> items[i].name, score |-> items[i].score]
                      ELSE top_intent)

\* intents_unset testing "not self.intents": None or empty
intents_falsy(self) == self._intents = None \/ self._intents = Some(<<>>)

intents_unset(self) == self._intents = None

\* RecognizerResult.get_top_scoring_intent: raised tells the TypeError, ret
\* holds the TopIntent returned
get_top_scoring_intent(self) ==
    IF intents_unset(self)
    THEN [raised |-> TRUE, ret |-> <<>>]
    ELSE [raised |-> FALSE,
          ret |-> <<scan_intents(self._intents[1], 1, [intent |-> "", score |-> 0])>>]

InitResult ==
    /\ pc = "result"
    /\ \E text \in TextValues, intents \in IntentValues :
          result = new_result(text, None, intents, None)
    /\ call = [op |-> "__init__"]
    /\ IdleLuis
    /\ IdleName
    /\ IdleStep

SetText ==
    /\ pc = "result"
    /\ \E value \in TextValues : result' = [result EXCEPT !._text = value]
    /\ call' = [op |-> "text"]
    /\ UNCHANGED <<pc, luis_vars, name_vars, step_vars>>

SetAlteredText ==
    /\ pc = "result"
    /\ \E value \in TextValues : result' = [result EXCEPT !._altered_text = value]
    /\ call' = [op |-> "altered_text"]
    /\ UNCHANGED <<pc, luis_vars, name_vars, step_vars>>

SetIntents ==
    /\ pc = "result"
    /\ \E value \in IntentValues : result' = [result EXCEPT !._intents = value]
    /\ call' = [op |-> "intents"]
    /\ UNCHANGED <<pc, luis_vars, name_vars, step_vars>>

SetEntities ==
    /\ pc = "result"
    /\ \E value \in EntityValues : result' = [result EXCEPT !._entities = value]
    /\ call' = [op |-> "entities"]
    /\ UNCHANGED <<pc, luis_vars, name_vars, step_vars>>

SetProperties ==
    /\ pc = "result"
    /\ \E value \in PropertyValues : result' = [result EXCEPT !._properties = value]
    /\ call' = [op |-> "properties"]
    /\ UNCHANGED <<pc, luis_vars, name_vars, step_vars>>

GetTopScoringIntent ==
    /\ pc = "result"
    /\ LET r == get_top_scoring_intent(result)
       IN  call' = [op |-> "get_top_scoring_intent", self |-> result,
                    raised |-> r.raised, ret |-> r.ret]
    /\ UNCHANGED <<pc, result, luis_vars, name_vars, step_vars>>

NextResult ==
    \/ SetText
    \/ SetAlteredText
    \/ SetIntents
    \/ SetEntities
    \/ SetProperties
    \/ GetTopScoringIntent

SpecResult == InitResult /\ [][NextResult]_vars

----------------------------------------------------------------------------
(* Vocabulary of the properties *)

Done == pc = "done"

Range(s) == {s[i] : i \in 1..Len(s)}
MapSeq(s, F(_)) == [i \in 1..Len(s) |-> F(s[i])]
Min(S) == CHOOSE x \in S : \A y \in S : x <= y

RECURSIVE SumLen(_, _)
SumLen(d, keys) ==
    IF keys = {} THEN 0
    ELSE LET k == CHOOSE x \in keys : TRUE
         IN  Len(d[k]) + SumLen(d, keys \ {k})

\* the position of an entity in the input list
Pos(e) == CHOOSE i \in 1..Len(entities) : entities[i] = e

\* the values a dict holds, without its metadata
ValueKeys(d) == DOMAIN d \ {_metadata_key}

\* the trace records of one container (0: the flat pass, k: the k-th composite)
TraceOf(k) == SelectSeq(trace, LAMBDA r : r.by = k)
TraceAt(k, key) == SelectSeq(trace, LAMBDA r : r.by = k /\ r.key = key)

\* the entities grouped under the k-th composite, those emitted by the flat pass
Grouped(k) == {r.entity : r \in Range(TraceOf(k))}
FlatEmitted == Grouped(0)

Resolved(k) == passes[k].parent # 0
ParentOf(k) == passes[k].before[passes[k].parent]
ChildTypesOf(k) ==
    {composite_entities[k].children[c].type :
        c \in 1..Len(composite_entities[k].children)}
InputParentTypes == {composite_entities[k].parent_type : k \in 1..Len(composite_entities)}

\* the span of e lies in the span of parent
SpanWithin(e, parent) ==
    e.start_index >= parent.start_index /\ e.end_index <= parent.end_index

TextOf(r) == [py |-> "str", v |-> r.entity.entity]
StrValues(list) == SelectSeq(list, LAMBDA x : x.py = "str")
DictValues(list) == SelectSeq(list, LAMBDA x : x.py = "dict")

\* the child mappings the output holds under key, and those the resolved
\* passes with that key built, in the order of the descriptors
ResolvedAt(key) ==
    SelectSeq([k \in 1..Len(passes) |-> k],
              LAMBDA k : Resolved(k) /\ extract_normalized_entity_name(ParentOf(k)) = key)

\* the output holds exactly the values the trace records, in the trace's order
OutputIsTrace ==
    /\ \A r \in Range(TraceOf(0)) : r.key \in ValueKeys(entities_and_metadata)
    /\ \A key \in ValueKeys(entities_and_metadata) :
          /\ StrValues(entities_and_metadata[key]) = MapSeq(TraceAt(0, key), TextOf)
          /\ DictValues(entities_and_metadata[key])
                = MapSeq(ResolvedAt(key),
                         LAMBDA k : [py |-> "dict", v |-> passes[k].children_entities])
    /\ \A k \in 1..Len(passes) :
          /\ Resolved(k) =>
                extract_normalized_entity_name(ParentOf(k)) \in ValueKeys(entities_and_metadata)
          /\ \A r \in Range(TraceOf(k)) : r.key \in ValueKeys(passes[k].children_entities)
          /\ \A key \in ValueKeys(passes[k].children_entities) :
                passes[k].children_entities[key] = MapSeq(TraceAt(k, key), TextOf)

----------------------------------------------------------------------------
(* C7, as stated: the score returned is >= every score of the mapping, and *)
(* when several intents share the highest score the first of them in       *)
(* iteration order is returned.                                            *)

TopCall == call.op = "get_top_scoring_intent" /\ ~call.raised
TopItems == call.self._intents[1]
TopScores == {TopItems[i].score : i \in 1..Len(TopItems)}
Highest == CHOOSE x \in TopScores : \A y \in TopScores : y <= x
HighestAt == {i \in 1..Len(TopItems) : TopItems[i].score = Highest}

C7_FirstOfHighest ==
    TopCall =>
        /\ \A i \in 1..Len(TopItems) : call.ret[1].score >= TopItems[i].score
        /\ (TopItems # <<>> /\ Cardinality(HighestAt) >= 2) =>
              call.ret[1].intent = TopItems[Min(HighestAt)].name

(* C7, amended: the score returned is >= every score of the mapping; when  *)
(* the highest score is greater than 0.0 the first intent that has it is   *)
(* returned with that score, and when no score is greater than 0.0 (or the *)
(* mapping is empty) the sentinel ("", 0.0) is returned.                   *)
C7_FirstOfHighestAboveZero ==
    TopCall =>
        /\ \A i \in 1..Len(TopItems) : call.ret[1].score >= TopItems[i].score
        /\ IF TopItems # <<>> /\ Highest > 0
           THEN call.ret[1] = [intent |-> TopItems[Min(HighestAt)].name, score |-> Highest]
           ELSE call.ret[1] = [intent |-> "", score |-> 0]

C7_Witness ==
    /\ TopCall
    /\ TopItems # <<>>
    /\ Highest > 0
    /\ Cardinality(HighestAt) >= 2
    /\ Min(HighestAt) > 1
    /\ call.ret[1].intent = TopItems[Min(HighestAt)].name

(* C8: get_top_scoring_intent raises exactly when the intent mapping is    *)
(* None; on an empty mapping that is set it raises nothing and returns     *)
(* ("", 0.0); the call leaves every field of the RecognizerResult as it    *)
(* was.                                                                    *)
C8_RaisesIffUnset ==
    call.op = "get_top_scoring_intent" =>
        /\ call.raised <=> call.self._intents = <<>>
        /\ call.raised => call.ret = <<>>
        /\ call.self._intents = << <<>> >> =>
              ~call.raised /\ call.ret = <<[intent |-> "", score |-> 0]>>
        /\ result = call.self

C8_Witness ==
    /\ call.op = "get_top_scoring_intent"
    /\ call.raised
    /\ result._intents = <<>>
    /\ result._text # <<>>

(* C6: extract_normalized_entity_name is idempotent: normalizing an entity *)
(* without role whose type is a name it returned returns that name.        *)
C6_Idempotent == Len(names) = 2 => names[2] = names[1]

----------------------------------------------------------------------------
\* an entity of a child type of the k-th composite outside its parent's span
OutsideChild(k, e) ==
    /\ Resolved(k)
    /\ e \in Range(passes[k].before)
    /\ e.type \in ChildTypesOf(k)
    /\ ~SpanWithin(e, ParentOf(k))

FlatUnderOwnName(e) ==
    \E r \in Range(TraceOf(0)) :
        r.entity = e /\ r.key = extract_normalized_entity_name(e)

\* when the parent is found, an entity of the working list is grouped under
\* the composite iff its type is a child type and its span is in the parent's
GroupedIffChildWithin ==
    \A k \in 1..Len(passes) :
        Resolved(k) =>
            /\ \A e \in Range(passes[k].before) :
                  e \in Grouped(k) <=>
                      (e.type \in ChildTypesOf(k) /\ SpanWithin(e, ParentOf(k)))
            /\ Grouped(k) \subseteq Range(passes[k].before)
            /\ SumLen(passes[k].children_entities, ValueKeys(passes[k].children_entities))
                  = Cardinality(Grouped(k))

(* C1, as stated: when the composite's parent is found, an entity of the   *)
(* working list is grouped iff its type is a child type and its span lies  *)
(* in the parent's span; an entity of a child type outside the parent's    *)
(* span is not grouped, stays in the returned list and is emitted by the   *)
(* flat pass under its own normalized name.                                *)
C1_OutsideChildIsEmittedFlat ==
    Done =>
        /\ GroupedIffChildWithin
        /\ OutputIsTrace
        /\ \A k \in 1..Len(passes) : \A e \in Range(entities) :
              OutsideChild(k, e) =>
                  /\ e \notin Grouped(k)
                  /\ e \in Range(passes[k].after)
                  /\ FlatUnderOwnName(e)

(* C1, amended: ... an entity of a child type outside the parent's span is *)
(* not grouped by that composite and stays in the list it returns; the     *)
(* flat pass emits it under its own normalized name unless a later         *)
(* composite groups it or its type is the parent type of a descriptor.     *)
C1_OutsideChildStays ==
    Done =>
        /\ GroupedIffChildWithin
        /\ OutputIsTrace
        /\ \A k \in 1..Len(passes) : \A e \in Range(entities) :
              OutsideChild(k, e) =>
                  /\ e \notin Grouped(k)
                  /\ e \in Range(passes[k].after)
                  /\ FlatUnderOwnName(e) <=>
                        /\ \A j \in (k + 1)..Len(passes) : e \notin Grouped(j)
                        /\ e.type \notin InputParentTypes

C1_Witness ==
    /\ Done
    /\ \E k \in 1..Len(passes) : \E e, g \in Range(entities) :
          /\ OutsideChild(k, e)
          /\ e \in Range(passes[k].after)
          /\ FlatUnderOwnName(e)
          /\ g \in Grouped(k)
          /\ g.type = e.type

(* C2: each input entity is grouped by at most one composite and at most   *)
(* once, also when several child entries name its type; a grouped entity   *)
(* is in the working list of no later composite and not in the list of the *)
(* flat pass, and the output holds one value per trace record, so the      *)
(* entity's value is in the output at most once.                           *)
C2_ConsumedAtMostOnce ==
    Done =>
        /\ \A e \in Range(entities) :
              Cardinality({t \in 1..Len(trace) : trace[t].entity = e}) <= 1
        /\ \A r \in Range(trace) : r.entity \in Range(entities)
        /\ \A k \in 1..Len(passes) : \A e \in Grouped(k) :
              /\ \A j \in (k + 1)..Len(passes) : e \notin Range(passes[j].before)
              /\ e \notin Range(remaining)
              /\ e \notin FlatEmitted
        /\ OutputIsTrace

C2_Witness ==
    /\ Done
    /\ Len(passes) = 2
    /\ Resolved(1) /\ Resolved(2)
    /\ passes[1].parent # passes[2].parent
    /\ \E e \in Grouped(1) :
          /\ Cardinality({c \in 1..Len(composite_entities[1].children) :
                            composite_entities[1].children[c].type = e.type}) >= 2
          /\ e.type \in ChildTypesOf(2)
          /\ SpanWithin(e, ParentOf(2))

\* the dict before the k-th composite pass
OutBefore(k) ==
    IF k = 1 THEN (IF verbose THEN (_metadata_key :> <<>>) ELSE <<>>)
    ELSE passes[k - 1].out

MatchesDescriptor(e, k) ==
    e.type = composite_entities[k].parent_type /\ e.entity = composite_entities[k].value

(* C3: a descriptor whose (parent_type, value) matches no entity of the    *)
(* working list leaves the list (same entities, same order) and the        *)
(* output with its metadata as they were; the descriptors after it are     *)
(* processed against that list.                                            *)
C3_MissingParentSkipped ==
    Done =>
        /\ Len(passes) = Len(composite_entities)
        /\ \A k \in 1..Len(passes) :
              /\ passes[k].before = (IF k = 1 THEN entities ELSE passes[k - 1].after)
              /\ Resolved(k) <=> \E e \in Range(passes[k].before) : MatchesDescriptor(e, k)
              /\ ~Resolved(k) =>
                    /\ passes[k].after = passes[k].before
                    /\ passes[k].out = OutBefore(k)
                    /\ Grouped(k) = {}
        /\ remaining = (IF passes = <<>> THEN entities ELSE passes[Len(passes)].after)

C3_Witness ==
    /\ Done
    /\ Len(passes) = 2
    /\ ~Resolved(1)
    /\ \E e \in Range(entities) : e.type = composite_entities[1].parent_type
    /\ Resolved(2)
    /\ Grouped(2) # {}
    /\ passes[1].after = entities
    /\ verbose

\* the entities of the input whose normalized name is key, in input order
NamedAs(key) ==
    SelectSeq(entities, LAMBDA e : extract_normalized_entity_name(e) = key)

----------------------------------------------------------------------------
\* a sequence of trace records follows the order of the input entities
InInputOrder(rs) ==
    \A a, b \in 1..Len(rs) : a < b => Pos(rs[a].entity) < Pos(rs[b].entity)

\* the first child entry of the k-th descriptor that names the type of e
ChildEntry(k, e) ==
    Min({c \in 1..Len(composite_entities[k].children) :
            composite_entities[k].children[c].type = e.type})

\* a sequence of trace records of the k-th composite follows the order of
\* the descriptor's child entries, and the input order within one entry
InChildEntryOrder(k, rs) ==
    \A a, b \in 1..Len(rs) :
        a < b =>
            \/ ChildEntry(k, rs[a].entity) < ChildEntry(k, rs[b].entity)
            \/ /\ ChildEntry(k, rs[a].entity) = ChildEntry(k, rs[b].entity)
               /\ Pos(rs[a].entity) < Pos(rs[b].entity)

Mirrors(values, metadata) ==
    /\ DOMAIN metadata = ValueKeys(values)
    /\ \A key \in DOMAIN metadata : Len(metadata[key]) = Len(values[key])

\* the child mappings of the output
ChildMappings ==
    UNION {{x.v : x \in Range(DictValues(entities_and_metadata[key]))} :
              key \in ValueKeys(entities_and_metadata)}

(* C9: without verbose the output has no "$instance" key, neither at the   *)
(* top level nor in a composite's child mapping; with verbose the top      *)
(* level "$instance" mapping has the keys of the value mapping other than  *)
(* "$instance" and under each key a list as long as the value list, and    *)
(* so has each composite's child mapping with its own "$instance".         *)
C9_MetadataMirrorsValues ==
    Done =>
        IF verbose
        THEN /\ _metadata_key \in DOMAIN entities_and_metadata
             /\ Mirrors(entities_and_metadata, entities_and_metadata[_metadata_key])
             /\ \A d \in ChildMappings :
                   _metadata_key \in DOMAIN d /\ Mirrors(d, d[_metadata_key])
        ELSE /\ _metadata_key \notin DOMAIN entities_and_metadata
             /\ \A d \in ChildMappings : _metadata_key \notin DOMAIN d

C9_Witness ==
    /\ Done
    /\ verbose
    /\ \E key \in ValueKeys(entities_and_metadata) :
          /\ StrValues(entities_and_metadata[key]) # <<>>
          /\ Len(entities_and_metadata[_metadata_key][key]) >= 1
    /\ \E d \in ChildMappings : \E key \in ValueKeys(d) : Len(d[_metadata_key][key]) >= 1

(* C10: the flat pass emits a value for exactly the entities that are in   *)
(* the working list after all composite passes and whose type is not the   *)
(* parent type of any descriptor, once each; an entity whose type is a     *)
(* parent type is never emitted by the flat pass, also when no composite   *)
(* grouped it and when the composite of its type did not resolve.          *)
C10_FlatSkipsParentTypes ==
    Done =>
        /\ FlatEmitted = {e \in Range(remaining) : e.type \notin InputParentTypes}
        /\ \A e \in FlatEmitted :
              Cardinality({t \in 1..Len(trace) : trace[t].by = 0 /\ trace[t].entity = e}) = 1
        /\ \A e \in Range(entities) : e.type \in InputParentTypes => e \notin FlatEmitted
        /\ composite_entity_types = InputParentTypes
        /\ OutputIsTrace

C10_Witness ==
    /\ Done
    /\ \E k \in 1..Len(passes) : \E e \in Range(remaining) :
          /\ ~Resolved(k)
          /\ e.type = composite_entities[k].parent_type
          /\ \A j \in 1..Len(passes) : e \notin Grouped(j)
          /\ e \notin FlatEmitted
    /\ FlatEmitted # {}

----------------------------------------------------------------------------
(* WaterfallStepContext.  Coroutines share one step context and run on one  *)
(* event loop: a call of next runs without interruption up to its await,    *)
(* and resume_dialog is entered by that await; the call then stays at the   *)
(* await until resume_dialog returns or raises.  A caller is "ready"        *)
(* before its call, "awaiting" at the await, "returned" or "failed" when    *)
(* resume_dialog returned or raised, and "raised" when next raised its own  *)
(* exception; saw is what a raised caller found the first call doing.       *)

Callers == 1..MaxCallers
StepResults == {"r1", "r2"}
StepIndexes == {0, 1}

\* WaterfallStepContext.__init__
new_step(index) == [_next_called |-> FALSE, _index |-> index]

\* the test of next: self._next_called is True
next_already_called(self) == self._next_called = TRUE

\* mark_next_called that leaves the flag as it is
mark_nothing(self) == self

\* self._next_called = True
mark_next_called(self) == [self EXCEPT !._next_called = TRUE]

\* the position of the call that went through, "none" when there is none
FirstCallAt ==
    LET through == {c \in Callers : callers[c].pc \in {"awaiting", "returned", "failed"}}
    IN  IF through = {} THEN "none" ELSE callers[CHOOSE c \in through : TRUE].pc

InitStep ==
    /\ pc = "step"
    /\ \E index \in StepIndexes : step = new_step(index)
    /\ callers = [c \in Callers |-> [pc |-> "ready", result |-> "", saw |-> "none"]]
    /\ resumed = <<>>
    /\ IdleLuis
    /\ IdleName
    /\ IdleResult

\* WaterfallStepContext.next, from the call to the exception or to the await
CallNext ==
    /\ pc = "step"
    /\ \E c \in Callers, result_ \in StepResults :
          /\ callers[c].pc = "ready"
          /\ IF next_already_called(step)
             THEN /\ callers' = [callers EXCEPT ![c] =
                                    [pc |-> "raised", result |-> result_, saw |-> FirstCallAt]]
                  /\ UNCHANGED <<step, resumed>>
             ELSE /\ step' = mark_next_called(step)
                  /\ resumed' = Append(resumed,
                                       [caller |-> c, index |-> step._index,
                                        reason |-> "NextCalled", result |-> result_,
                                        flag |-> step'._next_called])
                  /\ callers' = [callers EXCEPT ![c] =
                                    [pc |-> "awaiting", result |-> result_, saw |-> "none"]]
    /\ UNCHANGED <<pc, luis_vars, name_vars, result_vars>>

\* resume_dialog returns: next returns its DialogTurnResult
ResumeReturns ==
    /\ pc = "step"
    /\ \E c \in Callers :
          /\ callers[c].pc = "awaiting"
          /\ callers' = [callers EXCEPT ![c].pc = "returned"]
    /\ UNCHANGED <<pc, step, resumed, luis_vars, name_vars, result_vars>>

\* resume_dialog raises: the exception leaves next
ResumeFails ==
    /\ pc = "step"
    /\ \E c \in Callers :
          /\ callers[c].pc = "awaiting"
          /\ callers' = [callers EXCEPT ![c].pc = "failed"]
    /\ UNCHANGED <<pc, step, resumed, luis_vars, name_vars, result_vars>>

NextStep == CallNext \/ ResumeReturns \/ ResumeFails

SpecStep == InitStep /\ [][NextStep]_vars

----------------------------------------------------------------------------
CalledNext == {c \in Callers : callers[c].pc # "ready"}
WentThrough == {c \in Callers : callers[c].pc \in {"awaiting", "returned", "failed"}}
RaisedAlready == {c \in Callers : callers[c].pc = "raised"}

(* C11: over any interleaving of next() calls on one step context,         *)
(* resume_dialog is invoked at most once: the first next() sets the flag   *)
(* before it awaits resume_dialog, which it calls with reason NextCalled   *)
(* and its result; every later next() raises "already called" and invokes  *)
(* nothing, also while the first call is awaiting and after its            *)
(* resume_dialog failed.                                                   *)
C11_ResumedAtMostOnce ==
    pc = "step" =>
        /\ Len(resumed) <= 1
        /\ Cardinality(WentThrough) = Len(resumed)
        /\ step._next_called <=> CalledNext # {}
        /\ \A i \in 1..Len(resumed) :
              /\ resumed[i].flag
              /\ resumed[i].reason = "NextCalled"
              /\ resumed[i].caller \in WentThrough
              /\ resumed[i].result = callers[resumed[i].caller].result
              /\ resumed[i].index = step._index
        /\ CalledNext # {} => Cardinality(RaisedAlready) = Cardinality(CalledNext) - 1
        /\ \A c \in RaisedAlready : callers[c].saw \in {"awaiting", "returned", "failed"}

C11_Witness ==
    /\ pc = "step"
    /\ Len(resumed) = 1
    /\ \E b, c \in RaisedAlready : callers[b].saw = "awaiting" /\ callers[c].saw = "failed"

====
